---- MODULE Spec2Model ----
(***************************************************************************)
(* Plan / handle management of cuDPP (cudpp/src/cudpp_plan.cpp): option    *)
(* validation, plan construction with nested plans, tag-dispatched         *)
(* destruction, and the sparse-matrix entry points.                        *)
(*                                                                         *)
(* A plan is identified by the handle it is given at construction.  The    *)
(* handle machinery itself (CUDPPPlan::getHandle, getPlanPtrFromHandle,    *)
(* the base-class destructor) lives in headers that are not part of the    *)
(* sources at hand; it is modelled from the specification's HandleTable    *)
(* (section 4.2): handles are drawn monotonically from the instance, a     *)
(* lookup of an unregistered handle yields the null pointer.               *)
(***************************************************************************)
EXTENDS Integers, Sequences, FiniteSets, TLC

(***************************************************************************)
(* Bounds of the model.                                                    *)
(***************************************************************************)
\* handles the instance may hand out in one behaviour (top-level + nested)
MaxHandles == 3
\* numRows arguments range over 0..MaxRows
MaxRows == 2
MaxElements == 2049
MaxLen == 3

(***************************************************************************)
(* Values of the public interface.                                         *)
(***************************************************************************)
\* the null plan pointer
NULL == 0
\* the invalid-handle sentinel; distinct from every handle an instance issues
CUDPP_INVALID_HANDLE == -1
\* the first handle an instance issues
FirstHandle == 1

CUDPP_SUCCESS == "CUDPP_SUCCESS"
CUDPP_ERROR_INVALID_HANDLE == "CUDPP_ERROR_INVALID_HANDLE"
CUDPP_ERROR_ILLEGAL_CONFIGURATION == "CUDPP_ERROR_ILLEGAL_CONFIGURATION"
CUDPP_ERROR_UNKNOWN == "CUDPP_ERROR_UNKNOWN"
\* not a result code: the call did not return (assertion abort, fault)
NoReturn == "NoReturn"

CUDPP_SCAN == "CUDPP_SCAN"
CUDPP_SEGMENTED_SCAN == "CUDPP_SEGMENTED_SCAN"
CUDPP_COMPACT == "CUDPP_COMPACT"
CUDPP_REDUCE == "CUDPP_REDUCE"
CUDPP_SORT_RADIX == "CUDPP_SORT_RADIX"
CUDPP_SPMVMULT == "CUDPP_SPMVMULT"
CUDPP_RAND_MD5 == "CUDPP_RAND_MD5"
\* a tag outside the closed set of algorithms
CUDPP_ALGORITHM_INVALID == "CUDPP_ALGORITHM_INVALID"

\* the closed set of algorithm tags
Algorithms ==
    {CUDPP_SCAN, CUDPP_SEGMENTED_SCAN, CUDPP_COMPACT, CUDPP_REDUCE,
     CUDPP_SORT_RADIX, CUDPP_SPMVMULT, CUDPP_RAND_MD5}

\* every value the algorithm field of a configuration is given here
AlgorithmTags == Algorithms \cup {CUDPP_ALGORITHM_INVALID}

CUDPP_ADD == "CUDPP_ADD"
CUDPP_MAX == "CUDPP_MAX"
CUDPP_UINT == "CUDPP_UINT"
CUDPP_FLOAT == "CUDPP_FLOAT"

\* the options bit mask is modelled as the set of bits that are set;
\* (a & b) # 0 is  a \cap b # {},  a | b is  a \cup b
CUDPP_OPTION_FORWARD == "FORWARD"
CUDPP_OPTION_BACKWARD == "BACKWARD"
CUDPP_OPTION_EXCLUSIVE == "EXCLUSIVE"
CUDPP_OPTION_INCLUSIVE == "INCLUSIVE"
CUDPP_OPTION_KEYS_ONLY == "KEYS_ONLY"

OptionBits ==
    {CUDPP_OPTION_FORWARD, CUDPP_OPTION_BACKWARD, CUDPP_OPTION_EXCLUSIVE,
     CUDPP_OPTION_INCLUSIVE, CUDPP_OPTION_KEYS_ONLY}

\* the tile size of the radix sort (elements per block = 2 * SORT_CTA_SIZE)
SORT_CTA_SIZE == 512

\* CUDPPConfiguration {algorithm, op, datatype, options}
Configuration(a, o, d, opts) ==
    [algorithm |-> a, op |-> o, datatype |-> d, options |-> opts]

VARIABLES
    plans,       \* handle -> plan object, for every registered (live) plan
    nextHandle,  \* the next handle the instance will issue
    allocCalls,  \* handle -> number of alloc<Kind>Storage calls on that plan
    freeCalls,   \* handle -> number of free<Kind>Storage calls on that plan
    log,         \* the construct/alloc/free/remove events of the last call
    failing,     \* the handles of the plans whose storage allocation fails
    sortCall,    \* the arguments and the outcome of the test rig's verifySort
    issued,      \* the handles returned by successful creates, in order
    outHandle,   \* the caller's handle variable (*planHandle)
    result,      \* the result of the last call
    lastOp,      \* the last call and its arguments
    crashed      \* the process was aborted

vars ==
    <<plans, nextHandle, allocCalls, freeCalls, log, issued, outHandle,
      result, lastOp, crashed, failing, sortCall>>

(***************************************************************************)
(* The heap of one instance as a value: the registered plans, the handle   *)
(* counter, the storage-call counters and the event log of the call in     *)
(* progress.  Constructors and destructors map a heap to a heap.           *)
(***************************************************************************)
Heap(p, n, a, f, l) ==
    [plans |-> p, nextHandle |-> n, allocCalls |-> a, freeCalls |-> f, log |-> l]

Event(e, h) == [ev |-> e, plan |-> h]

\* validateOptions without the Forward/Backward and Exclusive/Inclusive tests
validateOptions_NoConflictTest(config, numRows) ==
    IF config.algorithm = CUDPP_COMPACT /\ numRows > 1
    THEN CUDPP_ERROR_ILLEGAL_CONFIGURATION ELSE CUDPP_SUCCESS

\* validateOptions without the multi-row Compact test
validateOptions_NoCompactTest(config, numRows) ==
    IF \/ {CUDPP_OPTION_BACKWARD, CUDPP_OPTION_FORWARD} \subseteq config.options
       \/ {CUDPP_OPTION_EXCLUSIVE, CUDPP_OPTION_INCLUSIVE} \subseteq config.options
    THEN CUDPP_ERROR_ILLEGAL_CONFIGURATION ELSE CUDPP_SUCCESS

\* ConfigValidator
validateOptions(config, numRows) ==
    LET ret0 == CUDPP_SUCCESS
        ret1 == IF /\ config.options \cap {CUDPP_OPTION_BACKWARD} # {}
                   /\ config.options \cap {CUDPP_OPTION_FORWARD} # {}
                THEN CUDPP_ERROR_ILLEGAL_CONFIGURATION ELSE ret0
        ret2 == IF /\ config.options \cap {CUDPP_OPTION_EXCLUSIVE} # {}
                   /\ config.options \cap {CUDPP_OPTION_INCLUSIVE} # {}
                THEN CUDPP_ERROR_ILLEGAL_CONFIGURATION ELSE ret1
        ret3 == IF config.algorithm = CUDPP_COMPACT /\ numRows > 1
                THEN CUDPP_ERROR_ILLEGAL_CONFIGURATION ELSE ret2
    IN  ret3

\* a handle taken from the free handles: the lowest one no live plan has
getHandle_Reuse(m) ==
    CHOOSE k \in FirstHandle..(FirstHandle + Cardinality(DOMAIN m.plans)) :
        /\ k \notin DOMAIN m.plans
        /\ \A j \in FirstHandle..(k - 1) : j \in DOMAIN m.plans

\* CUDPPPlan::getHandle: the handle of the plan under construction is the
\* next one of the instance's counter
getHandle(m) == m.nextHandle

\* getPlanPtrFromHandle<T>: the registered plan of a handle, or the null pointer
getPlanPtrFromHandle(p, handle) ==
    IF handle \in DOMAIN p THEN handle ELSE NULL

\* alloc<Kind>Storage(plan)
allocStorage(m, h) ==
    IF h \in failing
    THEN [m EXCEPT !.log = Append(@, Event("allocfail", h))]
    ELSE [m EXCEPT !.allocCalls[h] = @ + 1, !.log = Append(@, Event("alloc", h))]

\* free<Kind>Storage(plan)
freeStorage(m, h) ==
    [m EXCEPT !.freeCalls =
                  IF h \in DOMAIN @ THEN [@ EXCEPT ![h] = @ + 1] ELSE @,
              !.log = Append(@, Event("free", h))]

\* the plan base-class constructor: records the request and takes a handle
CUDPPPlan(m, config, numElements, numRows, rowPitch) ==
    LET h == getHandle(m)
        obj == [m_config |-> config,
                m_numElements |-> numElements,
                m_numRows |-> numRows,
                m_rowPitch |-> rowPitch,
                m_child |-> NULL,
                m_bKeysOnly |-> FALSE,
                m_rowFinalIndex |-> <<>>,
                \* no member: the positions of rowIndex the constructor read
                m_rowIndexReads |-> {}]
    IN  Heap((h :> obj) @@ m.plans,
             h + 1,
             (h :> 0) @@ m.allocCalls,
             (h :> 0) @@ m.freeCalls,
             Append(m.log, Event("construct", h)))

\* the plan base-class destructor: the handle stops resolving
CUDPPPlan_dtor(m, h) ==
    [m EXCEPT !.plans = [x \in DOMAIN @ \ {h} |-> @[x]],
              !.log = Append(@, Event("remove", h))]

CUDPPScanPlan(m, config, numElements, numRows, rowPitch) ==
    allocStorage(CUDPPPlan(m, config, numElements, numRows, rowPitch), getHandle(m))

\* a Scan destructor that does not free the plan's storage
CUDPPScanPlan_dtor_NoFree(m, h) ==
    CUDPPPlan_dtor(m, h)

CUDPPScanPlan_dtor(m, h) ==
    CUDPPPlan_dtor(freeStorage(m, h), h)

CUDPPSegmentedScanPlan(m, config, numElements) ==
    allocStorage(CUDPPPlan(m, config, numElements, 1, 0), getHandle(m))

CUDPPSegmentedScanPlan_dtor(m, h) ==
    CUDPPPlan_dtor(freeStorage(m, h), h)

\* assert(numRows == 1) of the Compact constructor
CompactAssertion(numRows) == numRows = 1

\* a nested configuration that takes the caller's operator, datatype and
\* options as they are
CompactScanConfig_FromCaller(config) ==
    Configuration(CUDPP_SCAN, config.op, config.datatype, config.options)

\* the configuration of the Scan plan a Compact plan owns
CompactScanConfig(config) ==
    Configuration(CUDPP_SCAN, CUDPP_ADD, CUDPP_UINT,
                  IF config.options \cap {CUDPP_OPTION_BACKWARD} # {}
                  THEN {CUDPP_OPTION_BACKWARD, CUDPP_OPTION_EXCLUSIVE}
                  ELSE {CUDPP_OPTION_FORWARD, CUDPP_OPTION_EXCLUSIVE})

\* a Compact constructor that takes a live Scan plan of the instance as its
\* m_scanPlan when there is one, instead of constructing its own
CUDPPCompactPlan_SharedScan(m, config, numElements, numRows, rowPitch) ==
    LET h  == getHandle(m)
        m1 == CUDPPPlan(m, config, numElements, numRows, rowPitch)
        scans == {s \in DOMAIN m.plans : m.plans[s].m_config.algorithm = CUDPP_SCAN}
        m2 == IF scans = {} 
              THEN CUDPPScanPlan(m1, CompactScanConfig(config), numElements, numRows, rowPitch)
              ELSE m1
        child == IF scans = {} THEN getHandle(m1) ELSE CHOOSE s \in scans : TRUE
        m3 == [m2 EXCEPT !.plans[h].m_child = child]
    IN  allocStorage(m3, h)

CUDPPCompactPlan(m, config, numElements, numRows, rowPitch) ==
    LET h  == getHandle(m)
        m1 == CUDPPPlan(m, config, numElements, numRows, rowPitch)
        m2 == CUDPPScanPlan(m1, CompactScanConfig(config), numElements, numRows, rowPitch)
        m3 == [m2 EXCEPT !.plans[h].m_child = getHandle(m1)]
    IN  allocStorage(m3, h)

\* delete p for a Scan pointer p: deleting the null pointer does nothing
DeleteScanPlan(m, p) == IF p = NULL THEN m ELSE CUDPPScanPlan_dtor(m, p)

DeleteSegmentedScanPlan(m, p) ==
    IF p = NULL THEN m ELSE CUDPPSegmentedScanPlan_dtor(m, p)

\* a Compact destructor that does not delete m_scanPlan
CUDPPCompactPlan_dtor_KeepsScan(m, h) ==
    CUDPPPlan_dtor(freeStorage(m, h), h)

CUDPPCompactPlan_dtor(m, h) ==
    LET m1 == DeleteScanPlan(m, m.plans[h].m_child)
        m2 == freeStorage(m1, h)
    IN  CUDPPPlan_dtor(m2, h)

CUDPPReducePlan(m, config, numElements) ==
    allocStorage(CUDPPPlan(m, config, numElements, 1, 0), getHandle(m))

CUDPPReducePlan_dtor(m, h) ==
    CUDPPPlan_dtor(freeStorage(m, h), h)

\* a block count that adds one block to the quotient in every case
numBlocks2_AlwaysOneMore(numElements) ==
    numElements \div (SORT_CTA_SIZE * 2) + 1

\* number of blocks of 2 * SORT_CTA_SIZE elements
numBlocks2(numElements) ==
    IF numElements % (SORT_CTA_SIZE * 2) = 0
    THEN numElements \div (SORT_CTA_SIZE * 2)
    ELSE numElements \div (SORT_CTA_SIZE * 2) + 1

\* the configuration of the Scan plan a RadixSort plan owns
RadixScanConfig ==
    Configuration(CUDPP_SCAN, CUDPP_ADD, CUDPP_UINT,
                  {CUDPP_OPTION_FORWARD, CUDPP_OPTION_EXCLUSIVE})

\* a keys-only flag that tests the KeysOnly bit alone
KeysOnly_BitTest(config) == CUDPP_OPTION_KEYS_ONLY \in config.options

\* m_bKeysOnly of a RadixSort plan
KeysOnly(config) == config.options = {CUDPP_OPTION_KEYS_ONLY}

\* a RadixSort constructor that constructs no Scan plan
CUDPPRadixSortPlan_NoScan(m, config, numElements) ==
    LET h  == getHandle(m)
        m1 == CUDPPPlan(m, config, numElements, 1, 0)
        m2 == [m1 EXCEPT !.plans[h].m_bKeysOnly = KeysOnly(m1.plans[h].m_config)]
    IN  allocStorage(m2, h)

CUDPPRadixSortPlan(m, config, numElements) ==
    LET h  == getHandle(m)
        m1 == CUDPPPlan(m, config, numElements, 1, 0)
        m2 == [m1 EXCEPT !.plans[h].m_bKeysOnly = KeysOnly(m1.plans[h].m_config)]
        m3 == CUDPPScanPlan(m2, RadixScanConfig, numBlocks2(numElements) * 16, 1, 0)
        m4 == [m3 EXCEPT !.plans[h].m_child = getHandle(m2)]
    IN  allocStorage(m4, h)

CUDPPRadixSortPlan_dtor(m, h) ==
    LET m1 == DeleteScanPlan(m, m.plans[h].m_child)
        m2 == freeStorage(m1, h)
    IN  CUDPPPlan_dtor(m2, h)

\* the configuration of the SegmentedScan plan a sparse-matrix plan owns
SegScanConfig(config) ==
    Configuration(CUDPP_SEGMENTED_SCAN, CUDPP_ADD, config.datatype,
                  {CUDPP_OPTION_FORWARD, CUDPP_OPTION_INCLUSIVE})

\* the size_t count of non-zero elements, which a 64-bit build can be given
\* beyond 32 bits, as its two 32-bit words: the count is high * 2^32 + low
SizeT(high, low) == [high |-> high, low |-> low]

\* x <= 0 for an unsigned x
IsZero(x) == x = SizeT(0, 0)

\* (unsigned int)x for a size_t x: the low 32 bits
UnsignedInt(x) == x.low

\* the positions (from 0) at which the loop that fills m_rowFinalIndex reads
\* rowIndex: i + 1 in each round i < m_numRows with i < m_numRows - 1
RowIndexReads(numRows) ==
    {i + 1 : i \in {j \in 0..(numRows - 1) : j < numRows - 1}}

\* m_rowFinalIndex: entry i (from 0) is at position i + 1, as rowIndex[i] is
RowFinalIndex(rowIndex, numRows, numNonZeroElements) ==
    [k \in 1..numRows |->
        IF k - 1 < numRows - 1 THEN rowIndex[k + 1]
        ELSE UnsignedInt(numNonZeroElements)]

CUDPPSparseMatrixVectorMultiplyPlan(m, config, numNonZeroElements, rowIndex, numRows) ==
    LET h  == getHandle(m)
        m1 == CUDPPPlan(m, config, numNonZeroElements, 1, 0)
        m2 == CUDPPSegmentedScanPlan(m1, SegScanConfig(config), numNonZeroElements)
        m3 == [m2 EXCEPT !.plans[h].m_child = getHandle(m1),
                         !.plans[h].m_rowFinalIndex =
                             RowFinalIndex(rowIndex, numRows, numNonZeroElements),
                         !.plans[h].m_rowIndexReads = RowIndexReads(numRows)]
    IN  allocStorage(m3, h)

CUDPPSparseMatrixVectorMultiplyPlan_dtor(m, h) ==
    LET m1 == freeStorage(m, h)
        m2 == DeleteSegmentedScanPlan(m1, m.plans[h].m_child)
    IN  CUDPPPlan_dtor(m2, h)

CUDPPRandPlan(m, config, num_elements) ==
    CUDPPPlan(m, config, num_elements, 1, 0)

\* CUDPPRandPlan declares no destructor of its own
CUDPPRandPlan_dtor(m, h) == CUDPPPlan_dtor(m, h)

\* the destructor of the class a plan with tag alg was constructed as
DestructorOf(alg, m, h) ==
    CASE alg = CUDPP_SCAN -> CUDPPScanPlan_dtor(m, h)
      [] alg = CUDPP_COMPACT -> CUDPPCompactPlan_dtor(m, h)
      [] alg = CUDPP_SORT_RADIX -> CUDPPRadixSortPlan_dtor(m, h)
      [] alg = CUDPP_SEGMENTED_SCAN -> CUDPPSegmentedScanPlan_dtor(m, h)
      [] alg = CUDPP_RAND_MD5 -> CUDPPRandPlan_dtor(m, h)
      [] alg = CUDPP_REDUCE -> CUDPPReducePlan_dtor(m, h)
      [] alg = CUDPP_SPMVMULT -> CUDPPSparseMatrixVectorMultiplyPlan_dtor(m, h)
      [] OTHER -> m

(***************************************************************************)
(* verifySort of the test rig.  An array of n elements is a sequence of    *)
(* length n: the element at position i (from 0) is the (i + 1)-th.  An     *)
(* outcome is whether the call returned, the value it returned, and the    *)
(* positions of the arrays it read.                                        *)
(***************************************************************************)
Outcome(returned, retval, reads) ==
    [returned |-> returned, retval |-> retval, reads |-> reads, undefined |-> FALSE]

\* what a read past the end of an array can lead to: the call faults or
\* does not end, or it goes on with whatever the memory holds and returns
UndefinedOutcomes(reads) ==
    {[returned |-> r, retval |-> v, reads |-> reads, undefined |-> TRUE] :
        r \in BOOLEAN, v \in {0, 1}}

\* i < len - 1 for an unsigned int i and a size_t len: for len = 0 the
\* right-hand side wraps to the largest size_t, which no i of this model
\* reaches
KeyLoopTest(i, len) == IF len = 0 THEN TRUE ELSE i < len - 1

\* the loop over the keys, from round i on
RECURSIVE KeyLoop(_, _, _, _)
KeyLoop(keysSorted, len, i, reads) ==
    IF ~KeyLoopTest(i, len)
    THEN {Outcome(TRUE, 0, reads)}
    ELSE LET r == reads \cup {<<"keysSorted", i>>, <<"keysSorted", i + 1>>}
         IN  IF i + 1 >= Len(keysSorted)
             THEN UndefinedOutcomes(r)
             ELSE IF keysSorted[i + 1] > keysSorted[i + 2]
             THEN {Outcome(TRUE, 1, r)}
             ELSE KeyLoop(keysSorted, len, i + 1, r)

\* the loop over the values, from round i on
RECURSIVE ValueLoop(_, _, _, _, _, _, _)
ValueLoop(keysSorted, valuesSorted, keysUnsorted, len, i, retval, reads) ==
    IF ~(i < len)
    THEN {Outcome(TRUE, retval, reads)}
    ELSE LET v == valuesSorted[i + 1]
             r == reads \cup {<<"valuesSorted", i>>, <<"keysUnsorted", v>>,
                              <<"keysSorted", i>>}
         IN  IF v >= Len(keysUnsorted)
             THEN UndefinedOutcomes(r)
             ELSE IF keysUnsorted[v + 1] # keysSorted[i + 1]
             THEN {Outcome(TRUE, 1, r)}
             ELSE ValueLoop(keysSorted, valuesSorted, keysUnsorted, len,
                            i + 1, retval, r)

\* verifySort(keysSorted, valuesSorted, keysUnsorted, len): the outcomes of
\* the call; hasValues says that valuesSorted is not the null pointer
verifySort(keysSorted, valuesSorted, keysUnsorted, len, hasValues) ==
    UNION {IF o.undefined \/ ~hasValues
           THEN {o}
           ELSE ValueLoop(keysSorted, valuesSorted, keysUnsorted, len,
                          0, o.retval, o.reads) :
           o \in KeyLoop(keysSorted, len, 0, {})}

\* no verifySort call
NoSortCall == [state |-> "none"]

(***************************************************************************)
(* The calls of the public interface.                                      *)
(***************************************************************************)
\* the heap at the start of a call
Mem == Heap(plans, nextHandle, allocCalls, freeCalls, <<>>)

NoConfig == Configuration("none", "none", "none", {})

Call(op, config, numElements, numRows, rowPitch, handle) ==
    [op |-> op, config |-> config, numElements |-> numElements,
     numRows |-> numRows, rowPitch |-> rowPitch, handle |-> handle]

\* the call ends with heap m and result res
Return(m, res, call) ==
    /\ plans' = m.plans
    /\ nextHandle' = m.nextHandle
    /\ allocCalls' = m.allocCalls
    /\ freeCalls' = m.freeCalls
    /\ log' = m.log
    /\ result' = res
    /\ lastOp' = call
    /\ crashed' = (res = NoReturn)
    /\ failing' = failing
    /\ sortCall' = sortCall

\* the handles a plan of this kind takes: its own and its nested plan's
HandlesTaken(alg) ==
    IF alg \in {CUDPP_COMPACT, CUDPP_SORT_RADIX, CUDPP_SPMVMULT} THEN 2 ELSE 1

\* the switch of cudppPlan: the heap after new <Kind>Plan(...), or no plan
NewPlan(m, config, numElements, numRows, rowPitch) ==
    CASE config.algorithm = CUDPP_SCAN ->
             CUDPPScanPlan(m, config, numElements, numRows, rowPitch)
      [] config.algorithm = CUDPP_COMPACT ->
             CUDPPCompactPlan(m, config, numElements, numRows, rowPitch)
      [] config.algorithm = CUDPP_SORT_RADIX ->
             CUDPPRadixSortPlan(m, config, numElements)
      [] config.algorithm = CUDPP_SEGMENTED_SCAN ->
             CUDPPSegmentedScanPlan(m, config, numElements)
      [] config.algorithm = CUDPP_RAND_MD5 ->
             CUDPPRandPlan(m, config, numElements)
      [] config.algorithm = CUDPP_REDUCE ->
             CUDPPReducePlan(m, config, numElements)
      [] OTHER -> m

\* a switch whose default branch does not return
PlanSwitchCases_NoDefault == AlgorithmTags

\* the algorithm tags the switch of cudppPlan has a case for
PlanSwitchCases ==
    {CUDPP_SCAN, CUDPP_COMPACT, CUDPP_SORT_RADIX, CUDPP_SEGMENTED_SCAN,
     CUDPP_RAND_MD5, CUDPP_REDUCE}

\* cudppPlan(cudppHandle, planHandle, config, numElements, numRows, rowPitch).
\* Where the assertion of the Compact constructor fails, a build with
\* assertions aborts and a build without them (NDEBUG) carries on
cudppPlan(config, numElements, numRows, rowPitch) ==
    LET call == Call("cudppPlan", config, numElements, numRows, rowPitch, NULL)
        res  == validateOptions(config, numRows)
        plan == getHandle(Mem)
        m    == NewPlan(Mem, config, numElements, numRows, rowPitch)
    IN  /\ ~crashed
        /\ IF res # CUDPP_SUCCESS
           THEN /\ outHandle' = CUDPP_INVALID_HANDLE
                /\ issued' = issued
                /\ Return(Mem, res, call)
           ELSE IF config.algorithm \notin PlanSwitchCases
           THEN /\ UNCHANGED <<outHandle, issued>>
                /\ Return(Mem, CUDPP_ERROR_ILLEGAL_CONFIGURATION, call)
           ELSE /\ nextHandle + HandlesTaken(config.algorithm) - 1 <= MaxHandles
                /\ \/ /\ config.algorithm = CUDPP_COMPACT
                      /\ ~CompactAssertion(numRows)
                      /\ UNCHANGED <<outHandle, issued>>
                      /\ Return(CUDPPPlan(Mem, config, numElements, numRows, rowPitch),
                                NoReturn, call)
                   \/ /\ outHandle' = plan
                      /\ issued' = Append(issued, plan)
                      /\ Return(m, CUDPP_SUCCESS, call)

\* the sentinel test left out
IsInvalidHandle_Never(handle) == FALSE

\* the test for the invalid sentinel both destroy calls start with
IsInvalidHandle(handle) == handle = CUDPP_INVALID_HANDLE

\* the switch of cudppDestroyPlan on the tag stored in the plan
DestroySwitch(m, plan) ==
    LET alg == m.plans[plan].m_config.algorithm
    IN  IF alg \in {CUDPP_SCAN, CUDPP_COMPACT, CUDPP_SORT_RADIX,
                    CUDPP_SEGMENTED_SCAN, CUDPP_RAND_MD5, CUDPP_REDUCE}
        THEN [heap |-> DestructorOf(alg, m, plan), result |-> CUDPP_SUCCESS]
        ELSE [heap |-> m, result |-> CUDPP_ERROR_ILLEGAL_CONFIGURATION]

\* what reading plan->m_config.algorithm through the null pointer can lead
\* to: a fault, or some tag; with a tag that has a case the null pointer is
\* deleted (no effect), with any other tag the default branch is taken
NullPlanOutcomes ==
    {NoReturn, CUDPP_SUCCESS, CUDPP_ERROR_ILLEGAL_CONFIGURATION}

\* cudppDestroyPlan(planHandle)
cudppDestroyPlan(planHandle) ==
    LET call == Call("cudppDestroyPlan", NoConfig, 0, 0, 0, planHandle)
        plan == getPlanPtrFromHandle(plans, planHandle)
    IN  /\ ~crashed
        /\ UNCHANGED <<outHandle, issued>>
        /\ IF IsInvalidHandle(planHandle)
           THEN Return(Mem, CUDPP_ERROR_INVALID_HANDLE, call)
           ELSE IF plan = NULL
           THEN \E res \in NullPlanOutcomes : Return(Mem, res, call)
           ELSE Return(DestroySwitch(Mem, plan).heap,
                       DestroySwitch(Mem, plan).result, call)

\* a request test that does not look at numRows
SparseRequestIllegal_NoRowTest(config, numNonZeroElements, numRows) ==
    \/ config.algorithm # CUDPP_SPMVMULT
    \/ IsZero(numNonZeroElements)

\* the request test of cudppSparseMatrix; both counts are unsigned
SparseRequestIllegal(config, numNonZeroElements, numRows) ==
    \/ config.algorithm # CUDPP_SPMVMULT
    \/ IsZero(numNonZeroElements)
    \/ numRows <= 0

\* cudppSparseMatrix(cudppHandle, sparseMatrixHandle, config,
\*                   numNonZeroElements, numRows, A, h_rowIndices, h_indices)
cudppSparseMatrix(config, numNonZeroElements, numRows, h_rowIndices) ==
    LET call == [rowIndices |-> h_rowIndices] @@
                    Call("cudppSparseMatrix", config, numNonZeroElements, numRows, 0, NULL)
        sparseMatrix == getHandle(Mem)
    IN  /\ ~crashed
        /\ IF SparseRequestIllegal(config, numNonZeroElements, numRows)
           THEN /\ outHandle' = CUDPP_INVALID_HANDLE
                /\ issued' = issued
                /\ Return(Mem, CUDPP_ERROR_ILLEGAL_CONFIGURATION, call)
           ELSE /\ nextHandle + HandlesTaken(CUDPP_SPMVMULT) - 1 <= MaxHandles
                /\ outHandle' = sparseMatrix
                /\ issued' = Append(issued, sparseMatrix)
                /\ Return(CUDPPSparseMatrixVectorMultiplyPlan(
                              Mem, config, numNonZeroElements, h_rowIndices, numRows),
                          CUDPP_SUCCESS, call)

\* cudppDestroySparseMatrix(sparseMatrixHandle).  Deleting a plan of another
\* kind through the sparse-matrix pointer type is undefined: the delete finds
\* the destructor of the plan's own class, or the call faults
cudppDestroySparseMatrix(sparseMatrixHandle) ==
    LET call == Call("cudppDestroySparseMatrix", NoConfig, 0, 0, 0, sparseMatrixHandle)
        plan == getPlanPtrFromHandle(plans, sparseMatrixHandle)
    IN  /\ ~crashed
        /\ UNCHANGED <<outHandle, issued>>
        /\ IF IsInvalidHandle(sparseMatrixHandle)
           THEN Return(Mem, CUDPP_ERROR_INVALID_HANDLE, call)
           ELSE IF plan = NULL
           THEN Return(Mem, CUDPP_SUCCESS, call)
           ELSE IF plans[plan].m_config.algorithm = CUDPP_SPMVMULT
           THEN Return(CUDPPSparseMatrixVectorMultiplyPlan_dtor(Mem, plan),
                       CUDPP_SUCCESS, call)
           ELSE \/ Return(DestructorOf(plans[plan].m_config.algorithm, Mem, plan),
                          CUDPP_SUCCESS, call)
                \/ Return(Mem, NoReturn, call)

(***************************************************************************)
(* The callers.                                                            *)
(***************************************************************************)
Range(q) == {q[i] : i \in DOMAIN q}

\* the handle values a caller can pass: the sentinel, every handle a create
\* returned (live or destroyed by now), and a value no plan has been given
\* yet; the handle of a nested plan is never given to a caller
CallerHandles ==
    {CUDPP_INVALID_HANDLE} \cup Range(issued) \cup {nextHandle}

\* the row-index array of a matrix of numRows rows: row i starts at 4 * i
RowIndices(numRows) == [k \in 1..numRows |-> 4 * (k - 1)]

\* the requests of the life-cycle specification
LifeOptions == {CUDPP_OPTION_FORWARD, CUDPP_OPTION_EXCLUSIVE}

LifeConfigs ==
    {Configuration(a, CUDPP_ADD, CUDPP_UINT, LifeOptions) : a \in AlgorithmTags}

LifeSparseConfigs ==
    {c \in LifeConfigs : c.algorithm \in {CUDPP_SPMVMULT, CUDPP_SCAN}}

LifeElements == {1000}

LifeNonZero == {SizeT(0, 0), SizeT(0, 12)}

Init ==
    /\ plans = <<>>
    /\ nextHandle = FirstHandle
    /\ allocCalls = <<>>
    /\ freeCalls = <<>>
    /\ log = <<>>
    /\ issued = <<>>
    /\ outHandle \in {CUDPP_INVALID_HANDLE, FirstHandle}
    /\ result = CUDPP_SUCCESS
    /\ lastOp = Call("none", NoConfig, 0, 0, 0, NULL)
    /\ crashed = FALSE
    /\ failing = {}
    /\ sortCall = NoSortCall

CreatePlan ==
    \E config \in LifeConfigs, numElements \in LifeElements,
       numRows \in 0..MaxRows :
        cudppPlan(config, numElements, numRows, 0)

DestroyPlan ==
    \E h \in CallerHandles : cudppDestroyPlan(h)

CreateSparseMatrix ==
    \E config \in LifeSparseConfigs, nnz \in LifeNonZero, numRows \in 0..MaxRows :
        cudppSparseMatrix(config, nnz, numRows, RowIndices(numRows))

DestroySparseMatrix ==
    \E h \in CallerHandles : cudppDestroySparseMatrix(h)

Next ==
    \/ CreatePlan
    \/ DestroyPlan
    \/ CreateSparseMatrix
    \/ DestroySparseMatrix

Spec == Init /\ [][Next]_vars

(***************************************************************************)
(* The request specification: one create call on a fresh instance, with    *)
(* the configuration and the sizes drawn from every combination, followed  *)
(* by destroy calls.                                                       *)
(***************************************************************************)
AllConfigs ==
    {Configuration(a, o, d, opts) :
        a \in AlgorithmTags, o \in {CUDPP_ADD, CUDPP_MAX},
        d \in {CUDPP_UINT, CUDPP_FLOAT}, opts \in SUBSET OptionBits}

RequestElements == {0, 1000, 1024}

RequestPitches == {0, 1024}

RequestPlan ==
    /\ lastOp.op = "none"
    /\ \E config \in AllConfigs, numElements \in RequestElements,
          numRows \in 0..MaxRows, rowPitch \in RequestPitches :
           cudppPlan(config, numElements, numRows, rowPitch)

RequestSparseMatrix ==
    /\ lastOp.op = "none"
    /\ \E config \in AllConfigs, nnz \in LifeNonZero, numRows \in 0..MaxRows :
           cudppSparseMatrix(config, nnz, numRows, RowIndices(numRows))

NextRequest ==
    \/ RequestPlan
    \/ RequestSparseMatrix
    \/ DestroyPlan
    \/ DestroySparseMatrix

SpecRequest == Init /\ [][NextRequest]_vars

(***************************************************************************)
(* The allocation specification: one create call on a fresh instance where *)
(* the storage allocation of some of the plans it constructs fails,        *)
(* followed by destroy calls.  A failing alloc<Kind>Storage retains no     *)
(* buffer; the constructors call it as a statement and carry on.           *)
(***************************************************************************)
\* the plans whose allocation can fail: the plan the first create constructs
\* and its nested plan
AllocFailures == SUBSET {FirstHandle, FirstHandle + 1}

InitAlloc ==
    /\ plans = <<>>
    /\ nextHandle = FirstHandle
    /\ allocCalls = <<>>
    /\ freeCalls = <<>>
    /\ log = <<>>
    /\ issued = <<>>
    /\ outHandle \in {CUDPP_INVALID_HANDLE, FirstHandle}
    /\ result = CUDPP_SUCCESS
    /\ lastOp = Call("none", NoConfig, 0, 0, 0, NULL)
    /\ crashed = FALSE
    /\ failing \in AllocFailures
    /\ sortCall = NoSortCall

AllocPlan ==
    /\ lastOp.op = "none"
    /\ \E config \in LifeConfigs, numElements \in LifeElements,
          numRows \in 0..MaxRows :
           cudppPlan(config, numElements, numRows, 0)

AllocSparseMatrix ==
    /\ lastOp.op = "none"
    /\ \E config \in LifeSparseConfigs, nnz \in LifeNonZero, numRows \in 0..MaxRows :
           cudppSparseMatrix(config, nnz, numRows, RowIndices(numRows))

NextAlloc ==
    \/ AllocPlan
    \/ AllocSparseMatrix
    \/ DestroyPlan
    \/ DestroySparseMatrix

SpecAlloc == InitAlloc /\ [][NextAlloc]_vars

(***************************************************************************)
(* The sort specification: one cudppPlan call for a RadixSort plan on a    *)
(* fresh instance, with every element count up to MaxElements, followed by *)
(* destroy calls.                                                          *)
(***************************************************************************)
SortConfigs ==
    {Configuration(CUDPP_SORT_RADIX, CUDPP_ADD, d, opts) :
        d \in {CUDPP_UINT, CUDPP_FLOAT},
        opts \in {{}, {CUDPP_OPTION_KEYS_ONLY}}}

SortPlan ==
    /\ lastOp.op = "none"
    /\ \E config \in SortConfigs, numElements \in 0..MaxElements :
           cudppPlan(config, numElements, 1, 0)

NextSort ==
    \/ SortPlan
    \/ DestroyPlan

SpecSort == Init /\ [][NextSort]_vars

(***************************************************************************)
(* The matrix specification: one cudppSparseMatrix call on a fresh         *)
(* instance, with every row-index array over a few values and a count of   *)
(* non-zero elements within and beyond 32 bits, followed by destroy calls. *)
(***************************************************************************)
MatrixConfig ==
    Configuration(CUDPP_SPMVMULT, CUDPP_ADD, CUDPP_FLOAT, {})

MatrixRows == 0..(MaxRows + 1)

MatrixIndexValues == {0, 4, 9}

MatrixNonZero == {SizeT(0, 0), SizeT(0, 12), SizeT(1, 12)}

MatrixObject ==
    /\ lastOp.op = "none"
    /\ \E numRows \in MatrixRows, nnz \in MatrixNonZero :
          \E rowIndex \in [1..numRows -> MatrixIndexValues] :
              cudppSparseMatrix(MatrixConfig, nnz, numRows, rowIndex)

NextMatrix ==
    \/ MatrixObject
    \/ DestroySparseMatrix

SpecMatrix == Init /\ [][NextMatrix]_vars

(***************************************************************************)
(* The verification specification: one verifySort call on arrays of len    *)
(* elements, len up to MaxLen, with the values indices into the arrays as  *)
(* the test rig has them.                                                  *)
(***************************************************************************)
KeyValues == {0, 1}

SortCalls ==
    UNION {[state : {"ready"},
            len : {len},
            keysSorted : [1..len -> KeyValues],
            valuesSorted : [1..len -> 0..(len - 1)],
            keysUnsorted : [1..len -> KeyValues],
            hasValues : BOOLEAN] : len \in 0..MaxLen}

InitVerify ==
    /\ plans = <<>>
    /\ nextHandle = FirstHandle
    /\ allocCalls = <<>>
    /\ freeCalls = <<>>
    /\ log = <<>>
    /\ issued = <<>>
    /\ outHandle = CUDPP_INVALID_HANDLE
    /\ result = CUDPP_SUCCESS
    /\ lastOp = Call("none", NoConfig, 0, 0, 0, NULL)
    /\ crashed = FALSE
    /\ failing = {}
    /\ sortCall \in SortCalls

VerifySort ==
    /\ sortCall.state = "ready"
    /\ \E o \in verifySort(sortCall.keysSorted, sortCall.valuesSorted,
                           sortCall.keysUnsorted, sortCall.len,
                           sortCall.hasValues) :
           sortCall' = [outcome |-> o] @@ [sortCall EXCEPT !.state = "done"]
    /\ UNCHANGED <<plans, nextHandle, allocCalls, freeCalls, log, issued,
                   outHandle, result, lastOp, crashed, failing>>

NextVerify == VerifySort

SpecVerify == InitVerify /\ [][NextVerify]_vars

(***************************************************************************)
(* Properties.                                                             *)
(***************************************************************************)
\* the options have both Forward and Backward, or both Exclusive and Inclusive
OptionConflict(options) ==
    \/ {CUDPP_OPTION_FORWARD, CUDPP_OPTION_BACKWARD} \subseteq options
    \/ {CUDPP_OPTION_EXCLUSIVE, CUDPP_OPTION_INCLUSIVE} \subseteq options

DestroyCalls == {"cudppDestroyPlan", "cudppDestroySparseMatrix"}

\* C1: a cudppPlan call whose options have both Forward and Backward, or both
\* Exclusive and Inclusive, whatever the algorithm and the sizes, returns
\* IllegalConfiguration, leaves the invalid sentinel in the output handle,
\* constructs no plan (top-level or nested) and makes no storage call: the
\* call's event log is empty and no handle was taken.
C1_ConflictingOptionsRejected ==
    (lastOp.op = "cudppPlan" /\ OptionConflict(lastOp.config.options)) =>
        /\ result = CUDPP_ERROR_ILLEGAL_CONFIGURATION
        /\ outHandle = CUDPP_INVALID_HANDLE
        /\ log = <<>>
        /\ plans = <<>>
        /\ nextHandle = FirstHandle

C1_Witness ==
    /\ lastOp.op = "cudppPlan"
    /\ lastOp.config.algorithm = CUDPP_SORT_RADIX
    /\ lastOp.config.options =
           {CUDPP_OPTION_EXCLUSIVE, CUDPP_OPTION_INCLUSIVE, CUDPP_OPTION_KEYS_ONLY}
    /\ lastOp.numElements = 1024
    /\ result = CUDPP_ERROR_ILLEGAL_CONFIGURATION
    /\ outHandle = CUDPP_INVALID_HANDLE

\* C2: a cudppPlan call with algorithm Compact and numRows > 1 returns
\* IllegalConfiguration and constructs neither a Compact plan nor its nested
\* Scan plan.
C2_MultiRowCompactRejected ==
    (/\ lastOp.op = "cudppPlan"
     /\ lastOp.config.algorithm = CUDPP_COMPACT
     /\ lastOp.numRows > 1) =>
        /\ result = CUDPP_ERROR_ILLEGAL_CONFIGURATION
        /\ log = <<>>
        /\ plans = <<>>

C2_Witness ==
    /\ lastOp.op = "cudppPlan"
    /\ lastOp.config.algorithm = CUDPP_COMPACT
    /\ ~OptionConflict(lastOp.config.options)
    /\ lastOp.numRows = 2
    /\ result = CUDPP_ERROR_ILLEGAL_CONFIGURATION

\* C3: cudppDestroyPlan and cudppDestroySparseMatrix called with the invalid
\* sentinel return InvalidHandle and destroy nothing: every live plan, the
\* handle counter and the storage-call counts are as before the call.
C3_SentinelDestroyRejected ==
    [][(lastOp'.op \in DestroyCalls /\ lastOp'.handle = CUDPP_INVALID_HANDLE) =>
          /\ result' = CUDPP_ERROR_INVALID_HANDLE
          /\ log' = <<>>
          /\ UNCHANGED <<plans, nextHandle, allocCalls, freeCalls>>]_vars

C3_Witness ==
    /\ lastOp.op = "cudppDestroyPlan"
    /\ lastOp.handle = CUDPP_INVALID_HANDLE
    /\ result = CUDPP_ERROR_INVALID_HANDLE
    /\ \E h \in DOMAIN plans : plans[h].m_child \in DOMAIN plans

\* C4: cudppDestroyPlan on a handle a create returned and that has been
\* destroyed since returns InvalidHandle.  (The event log of a call is empty
\* exactly when the call deleted nothing, which tells the destroy of an
\* unregistered handle from the destroy that unregistered it.)
C4_SecondDestroyInvalidHandle ==
    (/\ lastOp.op = "cudppDestroyPlan"
     /\ lastOp.handle \in Range(issued)
     /\ lastOp.handle \notin DOMAIN plans
     /\ log = <<>>) =>
        result = CUDPP_ERROR_INVALID_HANDLE

\* C5: when a plan that owns a nested plan stops being registered, its nested
\* plan stops being registered in the same call, and a handle that has
\* stopped resolving never resolves again.
C5_NestedPlanGoesWithParent ==
    [][/\ \A p \in DOMAIN plans :
            (plans[p].m_child # NULL /\ p \notin DOMAIN plans') =>
                plans[p].m_child \notin DOMAIN plans'
       /\ \A h \in FirstHandle..(nextHandle - 1) :
            h \notin DOMAIN plans => h \notin DOMAIN plans']_vars

C5_Witness ==
    /\ lastOp.op = "cudppDestroyPlan"
    /\ result = CUDPP_SUCCESS
    /\ lastOp.handle = FirstHandle
    /\ [ev |-> "remove", plan |-> FirstHandle + 1] \in Range(log)
    /\ [ev |-> "remove", plan |-> FirstHandle] \in Range(log)
    /\ FirstHandle + 2 \in DOMAIN plans

\* the plan and the storage-call counts of handle g are the same after the step
PlanUntouched(g) ==
    /\ g \in DOMAIN plans'
    /\ plans'[g] = plans[g]
    /\ allocCalls'[g] = allocCalls[g]
    /\ freeCalls'[g] = freeCalls[g]

\* C6: the live plans the caller holds have pairwise distinct handles, and a
\* call leaves every live plan other than the one whose handle a destroy call
\* was given, together with its nested plan, registered and unchanged
\* (configuration, sizes, nested plan, storage).
C6_DistinctHandlesAndFrame ==
    /\ [](\A i, j \in DOMAIN issued :
            (i # j /\ issued[i] \in DOMAIN plans /\ issued[j] \in DOMAIN plans) =>
                issued[i] # issued[j])
    /\ [][\A g \in Range(issued) \cap DOMAIN plans :
            (lastOp'.op \in DestroyCalls => g # lastOp'.handle) =>
                /\ PlanUntouched(g)
                /\ plans[g].m_child # NULL => PlanUntouched(plans[g].m_child)]_vars

C6_Witness ==
    /\ lastOp.op = "cudppDestroyPlan"
    /\ result = CUDPP_SUCCESS
    /\ Len(issued) = 2
    /\ issued[2] = lastOp.handle
    /\ issued[2] \notin DOMAIN plans
    /\ issued[1] \in DOMAIN plans
    /\ plans[issued[1]].m_child \in DOMAIN plans

\* C7: the handles successful creates have returned are pairwise different,
\* whether their plans are still live or were destroyed in between.
C7_HandlesNeverReused ==
    \A i, j \in DOMAIN issued : i # j => issued[i] # issued[j]

C7_Witness ==
    /\ lastOp.op = "cudppPlan"
    /\ result = CUDPP_SUCCESS
    /\ Len(issued) = 2
    /\ issued[1] \notin DOMAIN plans
    /\ issued[2] = outHandle
    /\ outHandle \in DOMAIN plans

\* C8: a cudppPlan call whose algorithm tag is outside the closed set, with
\* options that do not conflict, returns IllegalConfiguration, constructs no
\* plan and makes no storage call.
C8_UnknownAlgorithmRejected ==
    (/\ lastOp.op = "cudppPlan"
     /\ lastOp.config.algorithm \notin Algorithms
     /\ ~OptionConflict(lastOp.config.options)) =>
        /\ result = CUDPP_ERROR_ILLEGAL_CONFIGURATION
        /\ log = <<>>
        /\ plans = <<>>
        /\ nextHandle = FirstHandle

C8_Witness ==
    /\ lastOp.op = "cudppPlan"
    /\ lastOp.config.algorithm = CUDPP_ALGORITHM_INVALID
    /\ lastOp.config.options = {CUDPP_OPTION_BACKWARD, CUDPP_OPTION_INCLUSIVE}
    /\ lastOp.numRows = 1
    /\ result = CUDPP_ERROR_ILLEGAL_CONFIGURATION

\* C9: a cudppPlan call with an algorithm tag of the closed set and a request
\* that passes validateOptions returns Success, and the handle it returns
\* resolves to a live plan whose tag is the requested one, built by exactly
\* one top-level constructor.
C9_ValidRequestYieldsPlan ==
    (/\ lastOp.op = "cudppPlan"
     /\ lastOp.config.algorithm \in Algorithms
     /\ validateOptions(lastOp.config, lastOp.numRows) = CUDPP_SUCCESS) =>
        /\ result = CUDPP_SUCCESS
        /\ outHandle \in DOMAIN plans
        /\ plans[outHandle].m_config.algorithm = lastOp.config.algorithm
        /\ log # <<>>
        /\ log[1] = Event("construct", outHandle)

\* C10: cudppDestroyPlan on the handle of a live plan, of whichever of the
\* seven kinds, returns Success, leaves the handle unregistered and has run
\* the release of that plan exactly once (one removal; one free call where
\* the kind has storage).
C10_LivePlanDestroyed ==
    [][(lastOp'.op = "cudppDestroyPlan" /\ lastOp'.handle \in DOMAIN plans) =>
          /\ result' = CUDPP_SUCCESS
          /\ lastOp'.handle \notin DOMAIN plans'
          /\ Cardinality({i \in DOMAIN log' :
                            log'[i] = Event("remove", lastOp'.handle)}) = 1
          /\ freeCalls'[lastOp'.handle] = allocCalls[lastOp'.handle]]_vars

\* the positions of the event e of plan h in the event log q of a call
EventAt(q, e, h) == {i \in DOMAIN q : q[i] = Event(e, h)}

\* C11: in a call that destroys a plan owning a nested plan, the parent's own
\* storage is released first, then the nested plan is destroyed (its storage
\* released, its handle removed), then the parent's handle is removed.
C11_ReleaseOrder ==
    [][\A p \in DOMAIN plans :
          (plans[p].m_child # NULL /\ p \notin DOMAIN plans') =>
              \E i \in EventAt(log', "free", p) :
                  /\ \A j \in EventAt(log', "free", plans[p].m_child) : i < j
                  /\ \A j \in EventAt(log', "remove", plans[p].m_child) :
                        /\ i < j
                        /\ \A k \in EventAt(log', "remove", p) : j < k]_vars

\* C12: a cudppSparseMatrix call whose algorithm is not
\* SparseMatrixVectorMultiply, or whose numNonZeroElements or numRows is 0,
\* returns IllegalConfiguration, leaves the invalid sentinel in the output
\* handle, constructs no plan and makes no storage call; every other call
\* returns Success with the handle of a live SparseMatrixVectorMultiply plan,
\* the only plan of that kind the call constructed.
C12_SparseMatrixRequest ==
    [][lastOp'.op = "cudppSparseMatrix" =>
          IF \/ lastOp'.config.algorithm # CUDPP_SPMVMULT
             \/ lastOp'.numElements = SizeT(0, 0)
             \/ lastOp'.numRows = 0
          THEN /\ result' = CUDPP_ERROR_ILLEGAL_CONFIGURATION
               /\ outHandle' = CUDPP_INVALID_HANDLE
               /\ log' = <<>>
               /\ UNCHANGED <<plans, nextHandle, allocCalls, freeCalls>>
          ELSE /\ result' = CUDPP_SUCCESS
               /\ outHandle' \in DOMAIN plans' \ DOMAIN plans
               /\ plans'[outHandle'].m_config.algorithm = CUDPP_SPMVMULT
               /\ {h \in DOMAIN plans' \ DOMAIN plans :
                      plans'[h].m_config.algorithm = CUDPP_SPMVMULT} = {outHandle'}
               /\ \A h \in DOMAIN plans : PlanUntouched(h)]_vars

C12_Witness ==
    /\ lastOp.op = "cudppSparseMatrix"
    /\ lastOp.config.algorithm = CUDPP_SPMVMULT
    /\ lastOp.numElements = SizeT(0, 12)
    /\ lastOp.numRows = 0
    /\ result = CUDPP_ERROR_ILLEGAL_CONFIGURATION
    /\ outHandle = CUDPP_INVALID_HANDLE

\* C13: the options of every live plan, top-level or nested, never have both
\* Forward and Backward, and never have both Exclusive and Inclusive.
C13_LiveConfigurationsLegal ==
    \A h \in DOMAIN plans : ~OptionConflict(plans[h].m_config.options)

CreateCalls == {"cudppPlan", "cudppSparseMatrix"}

\* the events of the storage allocations that failed in the call
AllocFailed(q) == {i \in DOMAIN q : q[i].ev = "allocfail"}

\* C14: every create call either returns Success with a registered handle
\* whose plan, and nested plan, have their storage, or fails and leaves the
\* live plans and the storage-call counts as they were before the call; no
\* nested plan stays allocated when its parent's own allocation failed.
C14_ConstructionAtomic ==
    [][lastOp'.op \in CreateCalls =>
          \/ /\ result' = CUDPP_SUCCESS
             /\ outHandle' \in DOMAIN plans'
             /\ AllocFailed(log') = {}
          \/ /\ result' # CUDPP_SUCCESS
             /\ UNCHANGED <<plans, allocCalls, freeCalls>>]_vars

\* the kind of the nested plan a plan of kind alg owns, if it owns one
NestedKind(alg) ==
    CASE alg = CUDPP_COMPACT -> CUDPP_SCAN
      [] alg = CUDPP_SORT_RADIX -> CUDPP_SCAN
      [] alg = CUDPP_SPMVMULT -> CUDPP_SEGMENTED_SCAN
      [] OTHER -> "none"

\* the live plans whose nested plan is h
ParentsOf(h) == {p \in DOMAIN plans : plans[p].m_child = h}

C16_CompactSingleRow ==
    /\ \A h \in DOMAIN plans :
          plans[h].m_config.algorithm = CUDPP_COMPACT => plans[h].m_numRows = 1
    /\ (lastOp.op = "cudppPlan" /\ lastOp.config.algorithm = CUDPP_COMPACT) =>
          /\ \/ validateOptions(lastOp.config, lastOp.numRows) # CUDPP_SUCCESS
             \/ CompactAssertion(lastOp.numRows)
          /\ result # NoReturn

\* the least k with k * d >= n
Ceiling(n, d) == CHOOSE k \in 0..n : k * d >= n /\ (k = 0 \/ (k - 1) * d < n)

\* C17: the Scan plan nested in the RadixSort plan a cudppPlan call returned
\* has numElements = 16 * ceiling(numElements / (2 * SORT_CTA_SIZE)) for the
\* caller's numElements, numRows = 1, rowPitch = 0 and the configuration
\* {Scan, Add, uint32, Forward|Exclusive}; 1000 elements give a nested Scan
\* of 16 elements, and a multiple of 2 * SORT_CTA_SIZE gives 16 elements for
\* each block of the quotient and no more.
C17_RadixSortNestedScanSize ==
    (/\ lastOp.op = "cudppPlan"
     /\ lastOp.config.algorithm = CUDPP_SORT_RADIX
     /\ result = CUDPP_SUCCESS) =>
        LET n    == lastOp.numElements
            scan == plans[plans[outHandle].m_child]
        IN  /\ scan.m_numElements = Ceiling(n, 2 * SORT_CTA_SIZE) * 16
            /\ scan.m_numRows = 1
            /\ scan.m_rowPitch = 0
            /\ scan.m_config = Configuration(CUDPP_SCAN, CUDPP_ADD, CUDPP_UINT,
                                   {CUDPP_OPTION_FORWARD, CUDPP_OPTION_EXCLUSIVE})
            /\ n = 1000 => scan.m_numElements = 16
            /\ n % (2 * SORT_CTA_SIZE) = 0 =>
                   scan.m_numElements = (n \div (2 * SORT_CTA_SIZE)) * 16

C17_Witness ==
    /\ lastOp.op = "cudppPlan"
    /\ lastOp.config.algorithm = CUDPP_SORT_RADIX
    /\ lastOp.numElements = 4 * SORT_CTA_SIZE
    /\ result = CUDPP_SUCCESS
    /\ plans[plans[outHandle].m_child].m_numElements = 32

\* C18: the final-index table of the SparseMatrixVectorMultiply plan a
\* cudppSparseMatrix call returned has numRows entries, entry i is
\* rowIndex[i + 1] for every i < numRows - 1, entry numRows - 1 is
\* numNonZeroElements, and the constructor read rowIndex at the positions
\* 1..numRows - 1 only; 3 rows with rowIndex [0, 4, 9] and 12 non-zero
\* elements give the table [4, 9, 12].
C18_RowFinalIndexTable ==
    (lastOp.op = "cudppSparseMatrix" /\ result = CUDPP_SUCCESS) =>
        LET n     == lastOp.numRows
            table == plans[outHandle].m_rowFinalIndex
        IN  /\ DOMAIN table = 1..n
            /\ \A i \in 0..(n - 2) : table[i + 1] = lastOp.rowIndices[i + 2]
            /\ SizeT(0, table[n]) = lastOp.numElements
            /\ plans[outHandle].m_rowIndexReads = 1..(n - 1)
            /\ (/\ n = 3
                /\ lastOp.rowIndices = <<0, 4, 9>>
                /\ lastOp.numElements = SizeT(0, 12)) => table = <<4, 9, 12>>

\* C19: the Scan plan nested in the Compact plan a cudppPlan call returned
\* has the caller's numElements, numRows and rowPitch, the configuration
\* {Scan, Add, uint32}, and the options Exclusive|Backward when the caller's
\* options have Backward and Exclusive|Forward when they do not, whatever
\* the caller's operator, datatype and other option bits are.
C19_CompactNestedScan ==
    (/\ lastOp.op = "cudppPlan"
     /\ lastOp.config.algorithm = CUDPP_COMPACT
     /\ result = CUDPP_SUCCESS) =>
        LET scan == plans[plans[outHandle].m_child]
        IN  /\ scan.m_numElements = lastOp.numElements
            /\ scan.m_numRows = lastOp.numRows
            /\ scan.m_rowPitch = lastOp.rowPitch
            /\ scan.m_config.algorithm = CUDPP_SCAN
            /\ scan.m_config.op = CUDPP_ADD
            /\ scan.m_config.datatype = CUDPP_UINT
            /\ scan.m_config.options =
                   IF CUDPP_OPTION_BACKWARD \in lastOp.config.options
                   THEN {CUDPP_OPTION_EXCLUSIVE, CUDPP_OPTION_BACKWARD}
                   ELSE {CUDPP_OPTION_EXCLUSIVE, CUDPP_OPTION_FORWARD}

C19_Witness ==
    /\ lastOp.op = "cudppPlan"
    /\ lastOp.config =
           Configuration(CUDPP_COMPACT, CUDPP_MAX, CUDPP_FLOAT,
               {CUDPP_OPTION_BACKWARD, CUDPP_OPTION_INCLUSIVE, CUDPP_OPTION_KEYS_ONLY})
    /\ lastOp.numElements = 1000
    /\ lastOp.numRows = 1
    /\ lastOp.rowPitch = 1024
    /\ result = CUDPP_SUCCESS
    /\ plans[plans[outHandle].m_child].m_config.options =
           {CUDPP_OPTION_EXCLUSIVE, CUDPP_OPTION_BACKWARD}

\* C20: the keys-only flag of the RadixSort plan a cudppPlan call returned is
\* true exactly when the caller's options are the KeysOnly bit and no other
\* bit; the KeysOnly bit together with any other bit gives false.
C20_KeysOnlyExactMatch ==
    (/\ lastOp.op = "cudppPlan"
     /\ lastOp.config.algorithm = CUDPP_SORT_RADIX
     /\ result = CUDPP_SUCCESS) =>
        /\ plans[outHandle].m_bKeysOnly =
               (lastOp.config.options = {CUDPP_OPTION_KEYS_ONLY})
        /\ (/\ CUDPP_OPTION_KEYS_ONLY \in lastOp.config.options
            /\ lastOp.config.options \ {CUDPP_OPTION_KEYS_ONLY} # {}) =>
               ~plans[outHandle].m_bKeysOnly

C20_Witness ==
    /\ lastOp.op = "cudppPlan"
    /\ lastOp.config.algorithm = CUDPP_SORT_RADIX
    /\ lastOp.config.options = {CUDPP_OPTION_KEYS_ONLY, CUDPP_OPTION_FORWARD}
    /\ result = CUDPP_SUCCESS
    /\ plans[outHandle].m_bKeysOnly = FALSE

\* C21: after a cudppPlan or cudppSparseMatrix call that returned a result
\* other than Success, the caller's output handle is the invalid sentinel.
C21_FailedCreateLeavesSentinel ==
    (/\ lastOp.op \in CreateCalls
     /\ result \notin {CUDPP_SUCCESS, NoReturn}) =>
        outHandle = CUDPP_INVALID_HANDLE

NonDecreasing(keys, len) ==
    \A i \in 0..(len - 2) : keys[i + 1] <= keys[i + 2]

\* keysUnsorted[valuesSorted[i]] = keysSorted[i] for every i < len
ValuesFollowKeys(keysSorted, valuesSorted, keysUnsorted, len) ==
    \A i \in 0..(len - 1) : keysUnsorted[valuesSorted[i + 1] + 1] = keysSorted[i + 1]

\* C23: a verifySort call on arrays of len elements, len >= 0, returns; it
\* has read the arrays at positions below len only (none for len = 0); and
\* it returns 0 when the sorted keys are non-decreasing and, where
\* valuesSorted is given, keysUnsorted[valuesSorted[i]] = keysSorted[i] for
\* every i < len, and 1 in every other case.
C23_VerifySort ==
    sortCall.state = "done" =>
        /\ sortCall.outcome.returned
        /\ \A r \in sortCall.outcome.reads : r[2] < sortCall.len
        /\ sortCall.outcome.retval =
               IF /\ NonDecreasing(sortCall.keysSorted, sortCall.len)
                  /\ sortCall.hasValues =>
                         ValuesFollowKeys(sortCall.keysSorted, sortCall.valuesSorted,
                                          sortCall.keysUnsorted, sortCall.len)
               THEN 0
               ELSE 1

====
